---- MODULE Spec2Model ----
(***************************************************************************)
(* Model of mhcnames/normalizing_dictionary.py: the default normalizer     *)
(* normalize_string and the NormalizingDictionary container.               *)
(*                                                                         *)
(* Python objects are records [type, val, id]: val is the sequence of      *)
(* one-character strings of a str (or the digits of an int), id tells      *)
(* apart the objects made by separate calls of default_value_fn (0 for     *)
(* immutable values).                                                      *)
(***************************************************************************)
EXTENDS Integers, Sequences, FiniteSets, TLC

VARIABLES
    store,                            \* self.store
    original_to_normalized_key_dict,  \* self.original_to_normalized_key_dict
    normalized_to_original_keys_dict, \* self.normalized_to_original_keys_dict
    default_value_fn,                 \* self.default_value_fn
    n_defaults,                       \* calls of default_value_fn so far
    inserted,                         \* history: keys written by __setitem__
    defaulted,                        \* history: keys whose lookup made a default
    result,                           \* the last call and its outcome
    built,                            \* what the last view or rebuilding call returned
    name,                             \* normalizer run: the input
    outputs,                          \* normalizer run: successive results
    allele,                           \* rendering run: the AlleleGroup
    rendered,                         \* rendering run: the last call
    threads,                          \* concurrent run: each thread's call
    lock                              \* concurrent run: holder of the lock

vars == <<store, original_to_normalized_key_dict,
          normalized_to_original_keys_dict, default_value_fn, n_defaults,
          inserted, defaulted, result, built, name, outputs, allele,
          rendered, threads, lock>>

dict_vars == <<store, original_to_normalized_key_dict,
               normalized_to_original_keys_dict, default_value_fn,
               n_defaults, inserted, defaulted, result, built>>

norm_vars == <<name, outputs>>

allele_vars == <<allele, rendered>>

conc_vars == <<threads, lock>>

-----------------------------------------------------------------------------
(* Bounds *)

MaxLen == 4        \* longest string given to the normalizer run
MaxCalls == 2      \* repeated applications in the normalizer run
MaxKeys == 2       \* distinct original keys written by single inserts
MaxDefaults == 1   \* default values created per container
NumThreads == 2    \* threads of the concurrent run

-----------------------------------------------------------------------------
(* Python values *)

Str(s) == [type |-> "str", val |-> s, id |-> 0]
PyInt(d) == [type |-> "int", val |-> <<d>>, id |-> 0]
PyBool(b) == [type |-> "bool", val |-> <<IF b THEN "True" ELSE "False">>, id |-> 0]
None == [type |-> "NoneType", val |-> <<>>, id |-> 0]

isinstance_string(x) == x.type = "str"

Whitespace == {" ", "\t"}
RemovalChars == <<"-", "_", "'">>
Alphabet == Whitespace \cup {"-", "_", "'", "a", "A"}

\* str.upper, one character
UpperChar(c) ==
    CASE c = "a" -> "A"
      [] c = "h" -> "H"
      [] c = "l" -> "L"
      [] OTHER -> c

\* a slip: the case is left as given
upper_skipped(s) == s

upper(s) == [i \in DOMAIN s |-> UpperChar(s[i])]

RECURSIVE lstrip(_)
lstrip(s) ==
    IF s # <<>> /\ Head(s) \in Whitespace THEN lstrip(Tail(s)) ELSE s

RECURSIVE rstrip(_)
rstrip(s) ==
    IF s # <<>> /\ s[Len(s)] \in Whitespace
    THEN rstrip(SubSeq(s, 1, Len(s) - 1))
    ELSE s

\* str.strip() with no argument
strip(s) == rstrip(lstrip(s))

\* `char in name`
InStr(char, s) == \E i \in DOMAIN s : s[i] = char

\* name.replace(char, "")
RECURSIVE replace(_, _)
replace(s, char) ==
    IF s = <<>> THEN <<>>
    ELSE IF Head(s) = char THEN replace(Tail(s), char)
    ELSE <<Head(s)>> \o replace(Tail(s), char)

\* the loop `for char in chars_to_remove`, from position i on
RECURSIVE remove_chars(_, _, _)
remove_chars(s, chars_to_remove, i) ==
    IF i > Len(chars_to_remove) THEN s
    ELSE remove_chars(
            IF InStr(chars_to_remove[i], s)
            THEN replace(s, chars_to_remove[i]) ELSE s,
            chars_to_remove, i + 1)

normalize_string(x, chars_to_remove) ==
    IF ~isinstance_string(x) THEN x
    ELSE LET stripped == IF InStr(" ", x.val) THEN strip(x.val) ELSE x.val
         IN  Str(remove_chars(upper(stripped), chars_to_remove, 1))

\* self.normalize_fn, left at its default
normalize_fn(k) == normalize_string(k, RemovalChars)

-----------------------------------------------------------------------------
(* The normalizer run: normalize_string applied again and again to an input *)

RECURSIVE StringsUpTo(_)
StringsUpTo(n) ==
    IF n = 0 THEN {<<>>}
    ELSE LET shorter == StringsUpTo(n - 1)
         IN  shorter \cup {Append(s, c) : s \in {t \in shorter : Len(t) = n - 1},
                                          c \in Alphabet}

NormInputs == {Str(s) : s \in StringsUpTo(MaxLen)} \cup {None, PyInt("7")}

EmptyDict == [k \in {} |-> None]

NoCall == [op |-> "none", k |-> None, v |-> None, pairs |-> <<>>,
           exc |-> "None", exc_arg |-> None, ret |-> None, keys |-> {}]

\* no container returned
NoBuilt == [op |-> "none"]

\* outside the rendering run and outside the concurrent run
NoAllele == [species_prefix |-> <<>>, gene_name |-> <<>>, group_id |-> <<>>]
NoRendering == [op |-> "none"]
NoThreads == <<>>
NoLock == [used |-> FALSE, holder |-> {}]

\* the container as one value: the fields of self, and the two histories
Self == [store |-> store,
         original_to_normalized_key_dict |-> original_to_normalized_key_dict,
         normalized_to_original_keys_dict |-> normalized_to_original_keys_dict,
         default_value_fn |-> default_value_fn,
         n_defaults |-> n_defaults,
         inserted |-> inserted,
         defaulted |-> defaulted]

SetSelf(d) ==
    /\ store' = d.store
    /\ original_to_normalized_key_dict' = d.original_to_normalized_key_dict
    /\ normalized_to_original_keys_dict' = d.normalized_to_original_keys_dict
    /\ default_value_fn' = d.default_value_fn
    /\ n_defaults' = d.n_defaults
    /\ inserted' = d.inserted
    /\ defaulted' = d.defaulted

InitNorm ==
    /\ name \in NormInputs
    /\ outputs = <<>>
    /\ store = EmptyDict
    /\ original_to_normalized_key_dict = EmptyDict
    /\ normalized_to_original_keys_dict = EmptyDict
    /\ default_value_fn = "None"
    /\ n_defaults = 0
    /\ inserted = {}
    /\ defaulted = {}
    /\ result = NoCall
    /\ built = NoBuilt
    /\ allele = NoAllele
    /\ rendered = NoRendering
    /\ threads = NoThreads
    /\ lock = NoLock

Normalize ==
    /\ Len(outputs) < MaxCalls
    /\ outputs' = Append(outputs,
                         normalize_fn(IF outputs = <<>> THEN name
                                      ELSE outputs[Len(outputs)]))
    /\ UNCHANGED <<name, dict_vars, allele_vars, conc_vars>>

NextNorm == Normalize

SpecNorm == InitNorm /\ [][NextNorm]_vars

-----------------------------------------------------------------------------
(* NormalizingDictionary *)

\* d[k] = v on a built-in dict
Put(f, k, v) == [x \in DOMAIN f \cup {k} |-> IF x = k THEN v ELSE f[x]]

\* defaultdict(set)[k]: the set under k, an empty one when k is new
DefaultDictGet(f, k) == IF k \in DOMAIN f THEN f[k] ELSE {}

\* default_value_fn(): the n-th object the factory makes
CallDefault(fn, n) == [type |-> fn, val |-> <<>>, id |-> n]

\* __init__ before update_pairs
NewDict(fn) ==
    [store |-> EmptyDict,
     original_to_normalized_key_dict |-> EmptyDict,
     normalized_to_original_keys_dict |-> EmptyDict,
     default_value_fn |-> fn,
     n_defaults |-> 0,
     inserted |-> {},
     defaulted |-> {}]

Returned(d, ret) ==
    [self |-> d, exc |-> "None", exc_arg |-> None, ret |-> ret, keys |-> {}]

ReturnedKeys(d, ks) ==
    [self |-> d, exc |-> "None", exc_arg |-> None, ret |-> None, keys |-> ks]

Raised(d, exc, arg) ==
    [self |-> d, exc |-> exc, exc_arg |-> arg, ret |-> None, keys |-> {}]

\* a slip: the set of original keys is replaced, not added to
setitem_replacing_key_set(d, k, v) ==
    IF k = None THEN Raised(d, "AssertionError", None)
    ELSE IF v = None THEN Raised(d, "AssertionError", None)
    ELSE LET k_normalized == normalize_fn(k)
         IN  Returned(
               [d EXCEPT
                 !.original_to_normalized_key_dict = Put(@, k, k_normalized),
                 !.normalized_to_original_keys_dict = Put(@, k_normalized, {k}),
                 !.store = Put(@, k_normalized, v),
                 !.inserted = @ \cup {k}],
               None)

\* a slip: the value is stored under the key as given
setitem_under_original_key(d, k, v) ==
    IF k = None THEN Raised(d, "AssertionError", None)
    ELSE IF v = None THEN Raised(d, "AssertionError", None)
    ELSE LET k_normalized == normalize_fn(k)
         IN  Returned(
               [d EXCEPT
                 !.original_to_normalized_key_dict = Put(@, k, k_normalized),
                 !.normalized_to_original_keys_dict =
                     Put(@, k_normalized,
                         DefaultDictGet(@, k_normalized) \cup {k}),
                 !.store = Put(@, k, v),
                 !.inserted = @ \cup {k}],
               None)

\* a slip: the value is checked after the key has been recorded
setitem_checking_value_late(d, k, v) ==
    IF k = None THEN Raised(d, "AssertionError", None)
    ELSE LET k_normalized == normalize_fn(k)
             recorded ==
               [d EXCEPT
                 !.original_to_normalized_key_dict = Put(@, k, k_normalized),
                 !.normalized_to_original_keys_dict =
                     Put(@, k_normalized,
                         DefaultDictGet(@, k_normalized) \cup {k})]
         IN  IF v = None THEN Raised(recorded, "AssertionError", None)
             ELSE Returned([recorded EXCEPT !.store = Put(@, k_normalized, v),
                                            !.inserted = @ \cup {k}],
                           None)

setitem(d, k, v) ==
    IF k = None THEN Raised(d, "AssertionError", None)
    ELSE IF v = None THEN Raised(d, "AssertionError", None)
    ELSE LET k_normalized == normalize_fn(k)
         IN  Returned(
               [d EXCEPT
                 !.original_to_normalized_key_dict = Put(@, k, k_normalized),
                 !.normalized_to_original_keys_dict =
                     Put(@, k_normalized,
                         DefaultDictGet(@, k_normalized) \cup {k}),
                 !.store = Put(@, k_normalized, v),
                 !.inserted = @ \cup {k}],
               None)

\* the loop of update_pairs from pair i on; an exception ends it
RECURSIVE update_pairs_from(_, _, _)
update_pairs_from(d, pairs, i) ==
    IF i > Len(pairs) THEN Returned(d, None)
    ELSE LET r == setitem(d, pairs[i][1], pairs[i][2])
         IN  IF r.exc # "None" THEN r
             ELSE update_pairs_from(r.self, pairs, i + 1)

update_pairs(d, pairs) == update_pairs_from(d, pairs, 1)

init(pairs, fn) == update_pairs(NewDict(fn), pairs)

\* a slip: the KeyError carries the normalized key
getitem_raising_normalized_key(d, k) ==
    LET k_normalized == normalize_fn(k)
    IN  IF k_normalized \notin DOMAIN d.store
        THEN IF d.default_value_fn # "None"
             THEN LET made == CallDefault(d.default_value_fn, d.n_defaults + 1)
                  IN  Returned([d EXCEPT !.store = Put(@, k_normalized, made),
                                         !.n_defaults = @ + 1,
                                         !.defaulted = @ \cup {k}],
                               made)
             ELSE Raised(d, "KeyError", k_normalized)
        ELSE Returned(d, d.store[k_normalized])

\* a slip: the default is made and returned but not stored
getitem_not_storing_default(d, k) ==
    LET k_normalized == normalize_fn(k)
    IN  IF k_normalized \notin DOMAIN d.store
        THEN IF d.default_value_fn # "None"
             THEN LET made == CallDefault(d.default_value_fn, d.n_defaults + 1)
                  IN  Returned([d EXCEPT !.n_defaults = @ + 1,
                                         !.defaulted = @ \cup {k}],
                               made)
             ELSE Raised(d, "KeyError", k)
        ELSE Returned(d, d.store[k_normalized])

getitem(d, k) ==
    LET k_normalized == normalize_fn(k)
    IN  IF k_normalized \notin DOMAIN d.store
        THEN IF d.default_value_fn # "None"
             THEN LET made == CallDefault(d.default_value_fn, d.n_defaults + 1)
                  IN  Returned([d EXCEPT !.store = Put(@, k_normalized, made),
                                         !.n_defaults = @ + 1,
                                         !.defaulted = @ \cup {k}],
                               made)
             ELSE Raised(d, "KeyError", k)
        ELSE Returned(d, d.store[k_normalized])

contains(d, k) ==
    LET k_normalized == normalize_fn(k)
    IN  Returned(d, PyBool(k_normalized \in DOMAIN d.store))

original_keys(d, k) ==
    LET k_normalized == normalize_fn(k)
    IN  IF k_normalized \notin DOMAIN d.normalized_to_original_keys_dict
        THEN ReturnedKeys(d, {})
        ELSE ReturnedKeys(d, d.normalized_to_original_keys_dict[k_normalized])

\* the conversion specifiers of the message of original_key and the length
\* of the tuple given to the % operator
FormatSpecifiers == 2
FormatArguments == 1

\* format % args: the exception it raises, "None" when it formats
percent_format(n_specifiers, n_arguments) ==
    IF n_arguments # n_specifiers THEN "TypeError" ELSE "None"

original_key(d, k) ==
    LET ks == original_keys(d, k).keys
    IN  IF Cardinality(ks) = 0 THEN Raised(d, "KeyError", k)
        ELSE IF Cardinality(ks) > 1
        THEN IF percent_format(FormatSpecifiers, FormatArguments) # "None"
             THEN Raised(d, percent_format(FormatSpecifiers, FormatArguments),
                         None)
             ELSE Raised(d, "ValueError", None)
        ELSE Returned(d, CHOOSE x \in ks : TRUE)

\* a slip: get written as a lookup that catches KeyError
get_by_lookup(d, k, v) ==
    LET r == getitem(d, k)
    IN  IF r.exc = "KeyError" THEN Returned(d, v) ELSE r

\* dict.get(key, default) on the store
get(d, k, v) ==
    LET k_normalized == normalize_fn(k)
    IN  Returned(d, IF k_normalized \in DOMAIN d.store
                    THEN d.store[k_normalized] ELSE v)

len(d) == Cardinality(DOMAIN d.store)

update(d, other_pairs) == update_pairs(d, other_pairs)

keys(d) == DOMAIN d.original_to_normalized_key_dict

normalized_keys(d) == DOMAIN d.store

\* the list of key sets, told apart by the normalized key each stands
\* beside; reading the defaultdict adds an empty set for a key it lacks
key_sets_aligned_with_values(d) ==
    LET filled == [k \in normalized_keys(d)
                       \cup DOMAIN d.normalized_to_original_keys_dict |->
                     DefaultDictGet(d.normalized_to_original_keys_dict, k)]
    IN  [self |-> [d EXCEPT !.normalized_to_original_keys_dict = filled],
         key_sets |-> [k \in normalized_keys(d) |-> filled[k]]]

\* list(ks)[0] for every key set: each way of taking one member of each
FirstKeys(d) ==
    LET key_sets == key_sets_aligned_with_values(d).key_sets
        members == UNION {key_sets[k] : k \in DOMAIN key_sets} \cup {None}
    IN  {first \in [DOMAIN key_sets -> members] :
            \A k \in DOMAIN key_sets :
                IF key_sets[k] = {} THEN first[k] = None
                ELSE first[k] \in key_sets[k]}

\* the generator of keys_aligned_with_values, run to its end
keys_aligned_with_values(d, first) ==
    LET r == key_sets_aligned_with_values(d)
    IN  IF \E k \in DOMAIN r.key_sets : ~(Cardinality(r.key_sets[k]) > 0)
        THEN [self |-> r.self, exc |-> "AssertionError", yielded |-> {}]
        ELSE [self |-> r.self, exc |-> "None",
              yielded |-> {<<k, first[k]>> : k \in DOMAIN r.key_sets}]

values(d) == {<<k, d.store[k]>> : k \in normalized_keys(d)}

\* zip(keys_aligned_with_values(), values()), run to its end: the pairs
\* (key, value), each with the normalized key it stands for
items(d, first) ==
    LET r == keys_aligned_with_values(d, first)
    IN  IF r.exc # "None"
        THEN [self |-> r.self, exc |-> r.exc, yielded |-> {}]
        ELSE [self |-> r.self, exc |-> "None",
              yielded |-> {<<kk[1], kk[2], kv[2]>> :
                              <<kk, kv>> \in {x \in r.yielded \X values(d) :
                                                x[1][1] = x[2][1]}}]

\* the functions given to map_values and map_keys
apply_fn(fn, x) ==
    CASE fn = "identity" -> x
      [] fn = "constant" -> PyInt("1")

\* the orders a list of the yielded items can have
RECURSIVE ListsOf(_)
ListsOf(S) ==
    IF S = {} THEN {<<>>}
    ELSE UNION {{<<x>> \o rest : rest \in ListsOf(S \ {x})} : x \in S}

map_values(d, fn, first, listed) ==
    LET r == items(d, first)
    IN  IF r.exc # "None"
        THEN [self |-> r.self, exc |-> r.exc, dict |-> NewDict("None")]
        ELSE LET pairs == [i \in DOMAIN listed |->
                             <<listed[i][2], apply_fn(fn, listed[i][3])>>]
                 made == init(pairs, d.default_value_fn)
             IN  [self |-> r.self, exc |-> made.exc, dict |-> made.self]

map_keys(d, fn, first, listed) ==
    LET r == items(d, first)
    IN  IF r.exc # "None"
        THEN [self |-> r.self, exc |-> r.exc, dict |-> NewDict("None")]
        ELSE LET pairs == [i \in DOMAIN listed |->
                             <<apply_fn(fn, listed[i][2]), listed[i][3]>>]
                 made == init(pairs, d.default_value_fn)
             IN  [self |-> r.self, exc |-> made.exc, dict |-> made.self]

\* the members of a list, tuple or set of one-character strings
elements(v) == {Str(<<v.val[i]>>) : i \in DOMAIN v.val}

\* the `values` of one item in invert
targets(v) ==
    IF v.type \in {"list", "tuple", "set"} THEN elements(v) ELSE {v}

\* the same when the stored values are the sets an invert has built
members(v) == v

\* a slip: the key replaces the set under the target
invert_add_replacing(inverted, vi, k) ==
    LET k_normalized == normalize_fn(vi)
        missed == k_normalized \notin DOMAIN inverted.store
    IN  [inverted EXCEPT
           !.store = Put(@, k_normalized, {k}),
           !.n_defaults = IF missed THEN @ + 1 ELSE @,
           !.defaulted = IF missed THEN @ \cup {vi} ELSE @]

\* inverted[vi].add(k): the lookup makes an empty set on a miss
invert_add(inverted, vi, k) ==
    LET k_normalized == normalize_fn(vi)
        missed == k_normalized \notin DOMAIN inverted.store
        found == IF missed THEN {} ELSE inverted.store[k_normalized]
    IN  [inverted EXCEPT
           !.store = Put(@, k_normalized, found \cup {k}),
           !.n_defaults = IF missed THEN @ + 1 ELSE @,
           !.defaulted = IF missed THEN @ \cup {vi} ELSE @]

\* the two loops of invert over the pairs <<vi, k>> still to add
RECURSIVE invert_loop(_, _)
invert_loop(inverted, adds) ==
    IF adds = {} THEN inverted
    ELSE LET a == CHOOSE x \in adds : TRUE
         IN  invert_loop(invert_add(inverted, a[1], a[2]), adds \ {a})

invert_with(d, first, reading) ==
    LET r == items(d, first)
    IN  IF r.exc # "None"
        THEN [self |-> r.self, exc |-> r.exc, dict |-> NewDict("set")]
        ELSE [self |-> r.self, exc |-> "None",
              dict |-> invert_loop(
                         NewDict("set"),
                         UNION {{<<vi, y[2]>> : vi \in IF reading = "elements"
                                                       THEN targets(y[3])
                                                       ELSE members(y[3])} :
                                  y \in r.yielded})]

invert(d, first) == invert_with(d, first, "elements")

\* invert of a container an invert has built
invert_of_sets(d, first) == invert_with(d, first, "members")

-----------------------------------------------------------------------------
(* The calls made on one container *)

\* keys written one at a time
Keys == {Str(<<"a">>), Str(<<"A">>), Str(<<"-", "a">>), PyInt("7"), None}

\* keys read: those, and the spellings of HLA-A
ReadKeys == Keys \cup {Str(<<"H", "L", "A", "A">>)}

TupleValue == [type |-> "tuple", val |-> <<"a", "A", "7">>, id |-> 0]

Values == {PyInt("1"), TupleValue, None}

MapFns == {"identity", "constant"}

OtherPairs ==
    {<< <<Str(<<"A">>), PyInt("2")>> >>,
     << <<Str(<<"-", "a">>), PyInt("1")>>, <<None, PyInt("2")>>,
        <<PyInt("7"), PyInt("2")>> >>,
     << <<PyInt("7"), None>>, <<Str(<<"a">>), PyInt("1")>> >>}

Fallbacks == {None, PyInt("3")}

Factories == {"None", "set"}

HlaPairs == << <<Str(<<"h", "l", "a", "-", "a">>), PyInt("1")>>,
               <<Str(<<"H", "L", "A", "_", "A">>), PyInt("2")>>,
               <<Str(<<"h", "l", "a", " ", "a">>), PyInt("3")>> >>

InitialPairs ==
    {<<>>,
     HlaPairs,
     << <<Str(<<"a">>), PyInt("1")>>, <<PyInt("7"), PyInt("2")>> >>,
     << <<Str(<<"a">>), PyInt("1")>>, <<None, PyInt("2")>>,
        <<Str(<<"A">>), PyInt("3")>> >>}

Call(op, k, v, pairs, r) ==
    [op |-> op, k |-> k, v |-> v, pairs |-> pairs, exc |-> r.exc,
     exc_arg |-> r.exc_arg, ret |-> r.ret, keys |-> r.keys]

Apply(op, k, v, r) ==
    /\ SetSelf(r.self)
    /\ result' = Call(op, k, v, <<>>, r)
    /\ built' = NoBuilt
    /\ UNCHANGED <<norm_vars, allele_vars, conc_vars>>

Init ==
    /\ \E fn \in Factories :
          /\ store = NewDict(fn).store
          /\ original_to_normalized_key_dict =
                 NewDict(fn).original_to_normalized_key_dict
          /\ normalized_to_original_keys_dict =
                 NewDict(fn).normalized_to_original_keys_dict
          /\ default_value_fn = fn
          /\ n_defaults = 0
          /\ inserted = {}
          /\ defaulted = {}
          /\ result = Call("__init__", None, None, <<>>, init(<<>>, fn))
    /\ built = NoBuilt
    /\ name = None
    /\ outputs = <<>>
    /\ allele = NoAllele
    /\ rendered = NoRendering
    /\ threads = NoThreads
    /\ lock = NoLock

Construct ==
    \E pairs \in InitialPairs, fn \in Factories :
        LET r == init(pairs, fn)
        IN  /\ SetSelf(r.self)
            /\ result' = Call("__init__", None, None, pairs, r)
            /\ built' = NoBuilt
            /\ UNCHANGED <<norm_vars, allele_vars, conc_vars>>

Insert ==
    \E k \in Keys, v \in Values :
        /\ Cardinality(DOMAIN original_to_normalized_key_dict \cup {k})
               <= MaxKeys
        /\ Apply("__setitem__", k, v, setitem(Self, k, v))

Lookup ==
    \E k \in ReadKeys :
        /\ getitem(Self, k).self.n_defaults <= MaxDefaults
        /\ Apply("__getitem__", k, None, getitem(Self, k))

Contains ==
    \E k \in ReadKeys : Apply("__contains__", k, None, contains(Self, k))

GetWithFallback ==
    \E k \in ReadKeys, v \in Fallbacks : Apply("get", k, v, get(Self, k, v))

OriginalKeys ==
    \E k \in ReadKeys : Apply("original_keys", k, None, original_keys(Self, k))

OriginalKey ==
    \E k \in ReadKeys : Apply("original_key", k, None, original_key(Self, k))

NoReturn == [exc |-> "None", exc_arg |-> None, ret |-> None, keys |-> {}]

\* a call of a view or rebuilding method: r is what it gave
View(op, r, returned) ==
    /\ SetSelf(r.self)
    /\ result' = Call(op, None, None, <<>>, [NoReturn EXCEPT !.exc = r.exc])
    /\ built' = [op |-> op, exc |-> r.exc, returned |-> returned]
    /\ UNCHANGED <<norm_vars, allele_vars, conc_vars>>

Update ==
    \E other_pairs \in OtherPairs :
        LET r == update(Self, other_pairs)
        IN  /\ Cardinality(keys(r.self)) <= MaxKeys
            /\ SetSelf(r.self)
            /\ result' = Call("update", None, None, other_pairs, r)
            /\ built' = NoBuilt
            /\ UNCHANGED <<norm_vars, allele_vars, conc_vars>>

KeysAlignedWithValues ==
    \E first \in FirstKeys(Self) :
        LET r == keys_aligned_with_values(Self, first)
        IN  View("keys_aligned_with_values", r, r.yielded)

Items ==
    \E first \in FirstKeys(Self) :
        LET r == items(Self, first)
        IN  View("items", r, r.yielded)

MapValues ==
    \E fn \in MapFns, first \in FirstKeys(Self) :
        \E listed \in ListsOf(items(Self, first).yielded) :
            LET r == map_values(Self, fn, first, listed)
            IN  View("map_values", r, r.dict)

MapKeys ==
    \E fn \in MapFns, first \in FirstKeys(Self) :
        \E listed \in ListsOf(items(Self, first).yielded) :
            LET r == map_keys(Self, fn, first, listed)
            IN  View("map_keys", r, r.dict)

Invert ==
    \E first \in FirstKeys(Self) :
        LET r == invert(Self, first)
        IN  View("invert", r, [dict |-> r.dict,
                               yielded |-> items(Self, first).yielded])

\* invert called on the container the last invert returned
InvertAgain ==
    /\ built.op = "invert"
    /\ built.exc = "None"
    /\ \E first \in FirstKeys(built.returned.dict) :
          LET r == invert_of_sets(built.returned.dict, first)
          IN  /\ result' = Call("invert.invert", None, None, <<>>,
                                [NoReturn EXCEPT !.exc = r.exc])
              /\ built' = [op |-> "invert.invert", exc |-> r.exc,
                           returned |-> [dict |-> r.dict, receiver |-> r.self]]
              /\ UNCHANGED <<store, original_to_normalized_key_dict,
                             normalized_to_original_keys_dict,
                             default_value_fn, n_defaults, inserted,
                             defaulted, norm_vars, allele_vars, conc_vars>>

KeysMethod ==
    Apply("keys", None, None, ReturnedKeys(Self, keys(Self)))

Next ==
    \/ Construct
    \/ Insert
    \/ Lookup
    \/ Contains
    \/ GetWithFallback
    \/ OriginalKeys
    \/ OriginalKey
    \/ KeysMethod

Spec == Init /\ [][Next]_vars

\* the writes again, with the views and the rebuilding methods
NextViews ==
    \/ Construct
    \/ Insert
    \/ Lookup
    \/ Update
    \/ KeysAlignedWithValues
    \/ Items
    \/ MapValues
    \/ MapKeys
    \/ Invert
    \/ InvertAgain

SpecViews == Init /\ [][NextViews]_vars

-----------------------------------------------------------------------------
(* AlleleGroup (mhcnames/allele_group.py) over Locus *)

\* Locus.normalized_string(self, include_species)
Locus_normalized_string(self, include_species) ==
    IF include_species
    THEN self.species_prefix \o <<"-">> \o self.gene_name
    ELSE self.gene_name

\* Locus.compact_string(self, include_species)
Locus_compact_string(self, include_species) ==
    IF include_species
    THEN self.species_prefix \o self.gene_name
    ELSE self.gene_name

\* the positional parameters of the two methods of Locus: self
LocusPositionalParameters == 1

\* the positional arguments AlleleGroup gives in its two calls of Locus
NormalizedStringPositionalArguments == 1
CompactStringPositionalArguments == 0

\* a call of a function of Locus through the class: the arguments are
\* bound to the parameters before the body runs
call_unbound(n_positional, rendering) ==
    IF n_positional # LocusPositionalParameters
    THEN [exc |-> "TypeError", ret |-> <<>>]
    ELSE [exc |-> "None", ret |-> rendering]

\* a slip: the flag is not handed on to Locus
AlleleGroup_normalized_string_with_species(self, include_species) ==
    LET locus == call_unbound(NormalizedStringPositionalArguments,
                              Locus_normalized_string(self, TRUE))
    IN  IF locus.exc # "None" THEN locus
        ELSE [exc |-> "None", ret |-> locus.ret \o <<"*">> \o self.group_id]

\* "%s*%s" % (Locus.normalized_string(self, ...), self.group_id)
AlleleGroup_normalized_string(self, include_species) ==
    LET locus == call_unbound(NormalizedStringPositionalArguments,
                              Locus_normalized_string(self, include_species))
    IN  IF locus.exc # "None" THEN locus
        ELSE [exc |-> "None", ret |-> locus.ret \o <<"*">> \o self.group_id]

\* "%s%s" % (Locus.compact_string(...), self.group_id)
AlleleGroup_compact_string(self, include_species) ==
    LET locus == call_unbound(CompactStringPositionalArguments,
                              Locus_compact_string(self, include_species))
    IN  IF locus.exc # "None" THEN locus
        ELSE [exc |-> "None", ret |-> locus.ret \o self.group_id]

SpeciesPrefixes == {<<"H", "L", "A">>, <<"H", "2">>, <<"D", "L", "A">>}
GeneNames == {<<"A">>, <<"B">>, <<"D", "R", "B", "1">>}
GroupIds == {<<"0", "2">>, <<"0", "1">>, <<"2", "4">>}

\* AlleleGroup.__init__
AlleleGroup(species_prefix, gene_name, group_id) ==
    [species_prefix |-> species_prefix, gene_name |-> gene_name,
     group_id |-> group_id]

InitAllele ==
    /\ \E s \in SpeciesPrefixes, g \in GeneNames, i \in GroupIds :
          allele = AlleleGroup(s, g, i)
    /\ rendered = NoRendering
    /\ store = EmptyDict
    /\ original_to_normalized_key_dict = EmptyDict
    /\ normalized_to_original_keys_dict = EmptyDict
    /\ default_value_fn = "None"
    /\ n_defaults = 0
    /\ inserted = {}
    /\ defaulted = {}
    /\ result = NoCall
    /\ built = NoBuilt
    /\ name = None
    /\ outputs = <<>>
    /\ threads = NoThreads
    /\ lock = NoLock

Rendered(op, include_species, r) ==
    [op |-> op, include_species |-> include_species, exc |-> r.exc,
     ret |-> r.ret]

NormalizedString ==
    \E include_species \in BOOLEAN :
        /\ rendered' = Rendered("normalized_string", include_species,
                           AlleleGroup_normalized_string(allele,
                                                         include_species))
        /\ UNCHANGED <<allele, dict_vars, norm_vars, conc_vars>>

CompactString ==
    \E include_species \in BOOLEAN :
        /\ rendered' = Rendered("compact_string", include_species,
                           AlleleGroup_compact_string(allele,
                                                      include_species))
        /\ UNCHANGED <<allele, dict_vars, norm_vars, conc_vars>>

NextAllele == NormalizedString \/ CompactString

SpecAllele == InitAllele /\ [][NextAllele]_vars

-----------------------------------------------------------------------------
(* Concurrent calls on one container: every statement of __setitem__ and  *)
(* __getitem__ that reads or writes a dictionary or a set is one step.    *)
(* With lock.used every caller holds one exclusive lock around its call.  *)

\* the calls a thread can make
ThreadCalls ==
    {[op |-> "__setitem__", k |-> Str(<<"a">>), v |-> PyInt("1")],
     [op |-> "__setitem__", k |-> Str(<<"A">>), v |-> PyInt("2")],
     [op |-> "__getitem__", k |-> Str(<<"a">>), v |-> None],
     [op |-> "__getitem__", k |-> PyInt("7"), v |-> None]}

\* a slip: the store is written before the original key is recorded
setitem_statements_store_first == <<"assert", "store", "index", "keyset", "add">>

\* the statements of __setitem__ in the order they run
setitem_statements == <<"assert", "index", "keyset", "add", "store">>

\* the statement after `label`, "done" after the last
After(statements, label) ==
    LET i == CHOOSE j \in DOMAIN statements : statements[j] = label
    IN  IF i = Len(statements) THEN "done" ELSE statements[i + 1]

InitConc ==
    /\ threads \in [1..NumThreads ->
                      {[op |-> c.op, k |-> c.k, v |-> c.v, pc |-> "start",
                        exc |-> "None", ret |-> None] : c \in ThreadCalls}]
    /\ \E used \in BOOLEAN : lock = [used |-> used, holder |-> {}]
    /\ \E fn \in Factories :
          /\ store = NewDict(fn).store
          /\ original_to_normalized_key_dict =
                 NewDict(fn).original_to_normalized_key_dict
          /\ normalized_to_original_keys_dict =
                 NewDict(fn).normalized_to_original_keys_dict
          /\ default_value_fn = fn
    /\ n_defaults = 0
    /\ inserted = {}
    /\ defaulted = {}
    /\ result = NoCall
    /\ built = NoBuilt
    /\ name = None
    /\ outputs = <<>>
    /\ allele = NoAllele
    /\ rendered = NoRendering

\* thread t moves to `label`; the lock is given back with the call's end
Goto(t, label, exc, ret) ==
    /\ threads' = [threads EXCEPT ![t].pc = label, ![t].exc = exc,
                                  ![t].ret = ret]
    /\ lock' = IF label = "done" /\ lock.used
               THEN [lock EXCEPT !.holder = {}] ELSE lock
    /\ UNCHANGED <<result, built, norm_vars, allele_vars>>

Step(t, label) == Goto(t, label, "None", None)

\* the call begins, once the lock is taken when one is used
Begin(t) ==
    /\ threads[t].pc = "start"
    /\ lock.used => lock.holder = {}
    /\ threads' = [threads EXCEPT ![t].pc =
                      IF threads[t].op = "__setitem__"
                      THEN setitem_statements[1] ELSE "check"]
    /\ lock' = IF lock.used THEN [lock EXCEPT !.holder = {t}] ELSE lock
    /\ UNCHANGED <<dict_vars, norm_vars, allele_vars>>

\* __setitem__: the two asserts
SetitemAssert(t) ==
    /\ threads[t].op = "__setitem__"
    /\ threads[t].pc = "assert"
    /\ IF threads[t].k = None \/ threads[t].v = None
       THEN Goto(t, "done", "AssertionError", None)
       ELSE Step(t, After(setitem_statements, "assert"))
    /\ SetSelf(Self)

\* self.original_to_normalized_key_dict[k] = k_normalized
SetitemIndex(t) ==
    /\ threads[t].op = "__setitem__"
    /\ threads[t].pc = "index"
    /\ SetSelf([Self EXCEPT
                  !.original_to_normalized_key_dict =
                      Put(@, threads[t].k, normalize_fn(threads[t].k)),
                  !.inserted = @ \cup {threads[t].k}])
    /\ Step(t, After(setitem_statements, "index"))

\* self.normalized_to_original_keys_dict[k_normalized]
SetitemKeySet(t) ==
    /\ threads[t].op = "__setitem__"
    /\ threads[t].pc = "keyset"
    /\ LET k_normalized == normalize_fn(threads[t].k)
       IN  SetSelf([Self EXCEPT
                      !.normalized_to_original_keys_dict =
                          Put(@, k_normalized,
                              DefaultDictGet(@, k_normalized))])
    /\ Step(t, After(setitem_statements, "keyset"))

\* .add(k) on that set
SetitemAdd(t) ==
    /\ threads[t].op = "__setitem__"
    /\ threads[t].pc = "add"
    /\ LET k_normalized == normalize_fn(threads[t].k)
       IN  SetSelf([Self EXCEPT
                      !.normalized_to_original_keys_dict =
                          Put(@, k_normalized,
                              DefaultDictGet(@, k_normalized)
                                \cup {threads[t].k})])
    /\ Step(t, After(setitem_statements, "add"))

\* self.store[k_normalized] = v
SetitemStore(t) ==
    /\ threads[t].op = "__setitem__"
    /\ threads[t].pc = "store"
    /\ SetSelf([Self EXCEPT
                  !.store = Put(@, normalize_fn(threads[t].k), threads[t].v)])
    /\ Step(t, After(setitem_statements, "store"))

\* a slip: the default is made without looking whether the key is stored
GetitemCheck_skipped(t) ==
    /\ threads[t].op = "__getitem__"
    /\ threads[t].pc = "check"
    /\ IF default_value_fn # "None"
       THEN Step(t, "make")
       ELSE IF normalize_fn(threads[t].k) \notin DOMAIN store
       THEN Goto(t, "done", "KeyError", None)
       ELSE Step(t, "return")
    /\ SetSelf(Self)

\* __getitem__: `k_normalized not in self.store` and the choice it makes
GetitemCheck(t) ==
    /\ threads[t].op = "__getitem__"
    /\ threads[t].pc = "check"
    /\ IF normalize_fn(threads[t].k) \notin DOMAIN store
       THEN IF default_value_fn # "None"
            THEN Step(t, "make")
            ELSE Goto(t, "done", "KeyError", None)
       ELSE Step(t, "return")
    /\ SetSelf(Self)

\* self.store[k_normalized] = self.default_value_fn()
GetitemMake(t) ==
    /\ threads[t].op = "__getitem__"
    /\ threads[t].pc = "make"
    /\ SetSelf([Self EXCEPT
                  !.store = Put(@, normalize_fn(threads[t].k),
                                CallDefault(default_value_fn,
                                            n_defaults + 1)),
                  !.n_defaults = @ + 1,
                  !.defaulted = @ \cup {threads[t].k}])
    /\ Step(t, "return")

\* return self.store[k_normalized]
GetitemReturn(t) ==
    /\ threads[t].op = "__getitem__"
    /\ threads[t].pc = "return"
    /\ Goto(t, "done", "None", store[normalize_fn(threads[t].k)])
    /\ SetSelf(Self)

NextConc ==
    \/ \E t \in DOMAIN threads : Begin(t)
    \/ \E t \in DOMAIN threads : SetitemAssert(t)
    \/ \E t \in DOMAIN threads : SetitemIndex(t)
    \/ \E t \in DOMAIN threads : SetitemKeySet(t)
    \/ \E t \in DOMAIN threads : SetitemAdd(t)
    \/ \E t \in DOMAIN threads : SetitemStore(t)
    \/ \E t \in DOMAIN threads : GetitemCheck(t)
    \/ \E t \in DOMAIN threads : GetitemMake(t)
    \/ \E t \in DOMAIN threads : GetitemReturn(t)

SpecConc == InitConc /\ [][NextConc]_vars

\* the calls of the threads made one after the other in the given order
RECURSIVE CallsInOrder(_, _, _)
CallsInOrder(d, order, i) ==
    IF i > Len(order) THEN d
    ELSE LET c == threads[order[i]]
         IN  CallsInOrder(
                 IF c.op = "__setitem__" THEN setitem(d, c.k, c.v).self
                 ELSE getitem(d, c.k).self,
                 order, i + 1)

\* the three dictionaries every order of whole calls can leave
SequentialOutcomes ==
    {LET d == CallsInOrder(NewDict(default_value_fn), order, 1)
     IN  <<d.store, d.original_to_normalized_key_dict,
           d.normalized_to_original_keys_dict>> :
       order \in ListsOf(DOMAIN threads)}

AllDone == \A t \in DOMAIN threads : threads[t].pc = "done"

-----------------------------------------------------------------------------
(* Properties *)

containers == <<store, original_to_normalized_key_dict,
                normalized_to_original_keys_dict>>

\* the container after the step
SelfAfter == Self'

HLAA == Str(<<"H", "L", "A", "A">>)
hla_a == Str(<<"h", "l", "a", " ", "a">>)

\* C1: every normalized key present in the store has a non-empty set of
\* original keys in normalized_to_original_keys_dict.
C1_StoredKeysHaveOriginalKeys ==
    \A kn \in DOMAIN store :
        /\ kn \in DOMAIN normalized_to_original_keys_dict
        /\ normalized_to_original_keys_dict[kn] # {}

\* C2: on a container holding only what one insert of k1 left, an insert of
\* (k2, v2) with normalize(k2) = normalize(k1) leaves exactly one stored
\* value, v2, and original_keys(k1) = {k1, k2}.
C2_SecondInsertSharesSlot ==
    [][\A k1 \in Keys :
          (/\ inserted = {k1}
           /\ DOMAIN store = {normalize_fn(k1)}
           /\ result'.op = "__setitem__"
           /\ result'.exc = "None"
           /\ normalize_fn(result'.k) = normalize_fn(k1))
          => (/\ len(SelfAfter) = 1
              /\ store'[normalize_fn(k1)] = result'.v
              /\ original_keys(SelfAfter, k1).keys = {k1, result'.k})]_vars

C2_Witness ==
    /\ result.op = "__setitem__"
    /\ result.exc = "None"
    /\ defaulted = {}
    /\ Cardinality(inserted) = 2
    /\ len(Self) = 1
    /\ result.k \in inserted

\* C3 as stated: the size is the number of distinct normalized forms of the
\* keys written by __setitem__, whatever was read in between.
C3_SizeCountsInsertedForms ==
    len(Self) = Cardinality({normalize_fn(k) : k \in inserted})

\* C3 as amended: the size is the number of distinct normalized forms of the
\* keys written by __setitem__ and of the keys whose lookup missed and was
\* served by the default-value factory.
C3_SizeCountsInsertedAndDefaultedForms ==
    len(Self) = Cardinality({normalize_fn(k) : k \in inserted \cup defaulted})

C3_Witness ==
    /\ Cardinality(inserted) = 2
    /\ defaulted # {}
    /\ len(Self) = 2
    /\ result.op \in {"__contains__", "get", "__getitem__"}

\* C4: normalize_string is idempotent: applied to its own result it gives
\* that result back.
C4_NormalizeIdempotent ==
    Len(outputs) >= 2 => outputs[2] = outputs[1]

\* C5 as stated: built from ("hla-a", 1), ("HLA_A", 2), ("hla a", 3) the
\* container has size 1 and the lookup of "HLAA" gives 3.
C5_HlaSpellingsShareOneEntry ==
    (result.op = "__init__" /\ result.pairs = HlaPairs)
    => (/\ result.exc = "None"
        /\ len(Self) = 1
        /\ getitem(Self, HLAA).exc = "None"
        /\ getitem(Self, HLAA).ret = PyInt("3"))

\* C5 as amended: built from those pairs the container has size 2, the
\* lookup of "HLAA" gives 2 and the lookup of "hla a" gives 3.
C5_HlaSpellingsMakeTwoEntries ==
    (result.op = "__init__" /\ result.pairs = HlaPairs)
    => (/\ result.exc = "None"
        /\ len(Self) = 2
        /\ getitem(Self, HLAA).exc = "None"
        /\ getitem(Self, HLAA).ret = PyInt("2")
        /\ getitem(Self, hla_a).exc = "None"
        /\ getitem(Self, hla_a).ret = PyInt("3"))

C5_Witness ==
    /\ result.op = "__init__"
    /\ result.pairs = HlaPairs
    /\ Cardinality(inserted) = 3

\* C6: the result of normalize_string on a string is upper case, has no
\* whitespace at either end and holds none of the removed characters.
C6_NormalizedIsUpperTrimmedClean ==
    (Len(outputs) >= 1 /\ isinstance_string(name))
    => LET s == outputs[1].val
       IN  /\ s = upper(s)
           /\ s # <<>> => (Head(s) \notin Whitespace
                           /\ s[Len(s)] \notin Whitespace)
           /\ \A i \in DOMAIN RemovalChars : ~InStr(RemovalChars[i], s)

\* C7: a lookup that misses on a container with no default-value factory
\* raises KeyError carrying the key as given and changes nothing.
C7_MissWithoutFactoryRaises ==
    [][(/\ result'.op = "__getitem__"
        /\ default_value_fn = "None"
        /\ normalize_fn(result'.k) \notin DOMAIN store)
       => (/\ result'.exc = "KeyError"
           /\ result'.exc_arg = result'.k
           /\ UNCHANGED <<containers, n_defaults>>)]_vars

C7_Witness ==
    /\ result.op = "__getitem__"
    /\ result.exc = "KeyError"
    /\ result.k # normalize_fn(result.k)
    /\ DOMAIN store # {}

\* C8: a lookup that misses on a container with a default-value factory
\* stores the new default under the normalized key and returns it, so that
\* the key is contained and the size is one more; a lookup that hits returns
\* the stored value and changes nothing; and only a write replaces a stored
\* value.
C8_MissWithFactoryStoresDefault ==
    [][/\ (/\ result'.op = "__getitem__"
           /\ default_value_fn # "None"
           /\ normalize_fn(result'.k) \notin DOMAIN store)
          => (/\ result'.exc = "None"
              /\ result'.ret = CallDefault(default_value_fn, n_defaults + 1)
              /\ store' = Put(store, normalize_fn(result'.k), result'.ret)
              /\ contains(SelfAfter, result'.k).ret = PyBool(TRUE)
              /\ len(SelfAfter) = len(Self) + 1)
       /\ (/\ result'.op = "__getitem__"
           /\ normalize_fn(result'.k) \in DOMAIN store)
          => (/\ result'.exc = "None"
              /\ result'.ret = store[normalize_fn(result'.k)]
              /\ UNCHANGED <<containers, n_defaults>>)
       /\ result'.op \notin {"__setitem__", "__init__", "update"}
          => \A kn \in DOMAIN store :
                kn \in DOMAIN store' /\ store'[kn] = store[kn]]_vars

C8_Witness ==
    /\ result.op = "__getitem__"
    /\ result.exc = "None"
    /\ result.ret.id > 0
    /\ result.k \notin defaulted
    /\ len(Self) = 2

\* C9: original_key raises KeyError when original_keys is empty, ValueError
\* when it has more than one member, and returns the only member otherwise.
C9_OriginalKeyThreeOutcomes ==
    result.op = "original_key"
    => LET ks == original_keys(Self, result.k).keys
       IN  /\ Cardinality(ks) = 0 => result.exc = "KeyError"
           /\ Cardinality(ks) > 1 => result.exc = "ValueError"
           /\ Cardinality(ks) = 1 => (result.exc = "None" /\ ks = {result.ret})

\* C10: __contains__ and get change nothing, with or without a factory;
\* get returns the stored value when the normalized key is present and the
\* fallback otherwise, and __contains__ tells which.
C10_ContainsAndGetDoNotMutate ==
    [][/\ result'.op \in {"__contains__", "get"}
          => UNCHANGED <<containers, default_value_fn, n_defaults>>
       /\ result'.op = "get"
          => (/\ result'.exc = "None"
              /\ result'.ret =
                   IF normalize_fn(result'.k) \in DOMAIN store
                   THEN store[normalize_fn(result'.k)] ELSE result'.v)
       /\ result'.op = "__contains__"
          => (/\ result'.exc = "None"
              /\ result'.ret =
                   PyBool(normalize_fn(result'.k) \in DOMAIN store))]_vars

C10_Witness ==
    /\ result.op = "get"
    /\ default_value_fn = "set"
    /\ normalize_fn(result.k) \notin DOMAIN store
    /\ result.ret = result.v
    /\ result.v # None
    /\ DOMAIN store # {}

\* C11: keys_aligned_with_values and items end without an assertion failure
\* and yield one element for each stored value, the key of each normalizing
\* to the normalized key of the value it is paired with.
C11_ItemsYieldOnePerStoredValue ==
    built.op \in {"keys_aligned_with_values", "items"}
    => (/\ built.exc = "None"
        /\ Cardinality(built.returned) = len(Self)
        /\ \A y \in built.returned :
              /\ y[1] \in normalized_keys(Self)
              /\ normalize_fn(y[2]) = y[1]
              /\ built.op = "items" => y[3] = store[y[1]])

\* C12: map_values, map_keys and invert leave the receiver's store,
\* original-key index and normalized-to-original-keys mapping as they were.
C12_RebuildingLeavesReceiver ==
    [][result'.op \in {"map_values", "map_keys", "invert"}
       => UNCHANGED containers]_vars

\* C13: invert returns a container where, for every item (k, v) of the
\* receiver and every target t of v, the lookup of t gives a set holding k;
\* its stored keys are the normalized targets and its sets hold nothing else.
C13_InvertMapsTargetsToKeys ==
    (built.op = "invert" /\ built.exc = "None")
    => LET inverted == built.returned.dict
           yielded == built.returned.yielded
           KeysFor(kn) == {y[2] : y \in {x \in yielded :
                              \E t \in targets(x[3]) : normalize_fn(t) = kn}}
       IN  /\ yielded \in {items(Self, first).yielded :
                             first \in FirstKeys(Self)}
           /\ \A y \in yielded : \A t \in targets(y[3]) :
                 /\ getitem(inverted, t).exc = "None"
                 /\ y[2] \in getitem(inverted, t).ret
           /\ normalized_keys(inverted) =
                 UNION {{normalize_fn(t) : t \in targets(y[3])} :
                          y \in yielded}
           /\ \A kn \in normalized_keys(inverted) :
                 inverted.store[kn] = KeysFor(kn)

C13_Witness ==
    /\ built.op = "invert"
    /\ built.exc = "None"
    /\ \E y \in built.returned.yielded : y[3].type = "tuple"
    /\ \E kn \in normalized_keys(built.returned.dict) :
          Cardinality(built.returned.dict.store[kn]) = 2

\* C14: on a container built by inserts of values that are not collections,
\* invert applied twice ends without error and gives a container with the
\* receiver's normalized keys, the entry of each item (k, v) holding v.
C14_InvertTwiceRoundTrips ==
    (/\ built.op = "invert.invert"
     /\ defaulted = {}
     /\ \A kn \in normalized_keys(Self) :
           store[kn].type \notin {"list", "tuple", "set"})
    => (/\ built.exc = "None"
        /\ normalized_keys(built.returned.dict) = normalized_keys(Self)
        /\ \A kn \in normalized_keys(Self) :
              store[kn] \in built.returned.dict.store[kn])

\* C15: an insert of a None key or a None value raises AssertionError and
\* changes nothing; a pair like that given to __init__ or update ends the
\* call the same way, with the container as the pairs before it left it.
C15_NoneIsRejected ==
    [][/\ (result'.op = "__setitem__"
           /\ (result'.k = None \/ result'.v = None))
          => (/\ result'.exc = "AssertionError"
              /\ UNCHANGED <<containers, default_value_fn, n_defaults>>)
       /\ (/\ result'.op \in {"__init__", "update"}
           /\ \E i \in DOMAIN result'.pairs :
                 result'.pairs[i][1] = None \/ result'.pairs[i][2] = None)
          => LET pairs == result'.pairs
                 bad == CHOOSE i \in DOMAIN pairs :
                          /\ pairs[i][1] = None \/ pairs[i][2] = None
                          /\ \A j \in 1..(i - 1) :
                                pairs[j][1] # None /\ pairs[j][2] # None
                 before == IF result'.op = "update" THEN Self
                           ELSE NewDict(default_value_fn')
             IN  /\ result'.exc = "AssertionError"
                 /\ keys(SelfAfter) =
                      keys(before) \cup {pairs[j][1] : j \in 1..(bad - 1)}
                 /\ normalized_keys(SelfAfter) =
                      normalized_keys(before)
                        \cup {normalize_fn(pairs[j][1]) : j \in 1..(bad - 1)}
                 /\ \A kn \in normalized_keys(SelfAfter) :
                       /\ (\A j \in 1..(bad - 1) :
                              normalize_fn(pairs[j][1]) # kn)
                          => store'[kn] = before.store[kn]
                       /\ None \notin DefaultDictGet(
                              normalized_to_original_keys_dict', kn)]_vars

C15_Witness ==
    /\ result.op = "update"
    /\ result.exc = "AssertionError"
    /\ Str(<<"-", "a">>) \in inserted
    /\ PyInt("7") \notin inserted

\* C16: original_keys(k) is the set of the keys ever written that normalize
\* as k does, keys() is the set of all keys ever written, and with nothing
\* but writes made there are at least as many keys as stored values.
C16_OriginalKeysAreAllKeysWritten ==
    /\ result.op = "original_keys"
       => result.keys = {k \in inserted :
                           normalize_fn(k) = normalize_fn(result.k)}
    /\ result.op = "keys"
       => (/\ result.keys = inserted
           /\ defaulted = {} => Cardinality(result.keys) >= len(Self))

C16_Witness ==
    /\ result.op = "original_keys"
    /\ Cardinality(result.keys) = 2
    /\ len(Self) = 2

HLA_A_02 == AlleleGroup(<<"H", "L", "A">>, <<"A">>, <<"0", "2">>)

\* C17: compact_string returns the compact string of the Locus followed
\* directly by group_id, for both values of include_species ("HLAA02" and
\* "A02" for HLA, A, 02), and never raises.
C17_CompactStringJoinsLocusAndGroup ==
    rendered.op = "compact_string"
    => (/\ rendered.exc = "None"
        /\ rendered.ret =
             Locus_compact_string(allele, rendered.include_species)
               \o allele.group_id
        /\ (allele = HLA_A_02 /\ rendered.include_species)
           => rendered.ret = <<"H", "L", "A", "A", "0", "2">>
        /\ (allele = HLA_A_02 /\ ~rendered.include_species)
           => rendered.ret = <<"A", "0", "2">>)

\* C18: normalized_string returns the normalized string of the Locus for
\* the same include_species, then "*", then group_id ("HLA-A*02" and "A*02"
\* for HLA, A, 02).
C18_NormalizedStringJoinsWithAsterisk ==
    rendered.op = "normalized_string"
    => (/\ rendered.exc = "None"
        /\ rendered.ret =
             Locus_normalized_string(allele, rendered.include_species)
               \o <<"*">> \o allele.group_id
        /\ (allele = HLA_A_02 /\ rendered.include_species)
           => rendered.ret = <<"H", "L", "A", "-", "A", "*", "0", "2">>
        /\ (allele = HLA_A_02 /\ ~rendered.include_species)
           => rendered.ret = <<"A", "*", "0", "2">>)

C18_Witness ==
    /\ rendered.op = "normalized_string"
    /\ allele = HLA_A_02
    /\ ~rendered.include_species
    /\ rendered.ret = <<"A", "*", "0", "2">>

\* C19: with one exclusive lock held around each whole call the calls leave
\* what some order of whole calls leaves; without it a lookup that makes a
\* default can overwrite the value an insert stored in between, which no
\* order of the two calls leaves.
C19_LockedCallsAreSequential ==
    (AllDone /\ lock.used) => containers \in SequentialOutcomes

C19_Witness ==
    /\ AllDone
    /\ ~lock.used
    /\ \E t, u \in DOMAIN threads :
          /\ threads[t].op = "__getitem__"
          /\ threads[u].op = "__setitem__"
          /\ threads[u].exc = "None"
          /\ normalize_fn(threads[t].k) = normalize_fn(threads[u].k)
          /\ threads[t].ret.id > 0
          /\ store[normalize_fn(threads[u].k)] = threads[t].ret
    /\ \A t \in DOMAIN threads :
          normalize_fn(threads[t].k) = Str(<<"A">>)
    /\ containers \notin SequentialOutcomes

\* C20: with nothing but inserts running, under every interleaving of their
\* statements and with no lock, every normalized key in the store has a
\* non-empty set of original keys at every moment, and when all have ended
\* the dictionaries are what some order of whole inserts leaves.
C20_InterleavedInsertsKeepKeySets ==
    (\A t \in DOMAIN threads : threads[t].op = "__setitem__")
    => (/\ \A kn \in DOMAIN store :
              /\ kn \in DOMAIN normalized_to_original_keys_dict
              /\ normalized_to_original_keys_dict[kn] # {}
        /\ AllDone => containers \in SequentialOutcomes)

C20_Witness ==
    /\ ~lock.used
    /\ \A t \in DOMAIN threads : threads[t].op = "__setitem__"
    /\ \E t, u \in DOMAIN threads :
          /\ threads[t].pc = "done"
          /\ threads[u].pc = "add"
          /\ threads[t].k # threads[u].k
          /\ normalize_fn(threads[t].k) = normalize_fn(threads[u].k)

====
